---- MODULE Spec2Model ----
(***************************************************************************)
(* A model of the jabroni interpreter core: the tagged runtime values,     *)
(* the bindings and the layered binding map, the subroutine call protocol  *)
(* and the tree-walking evaluator of expressions and statements.           *)
(*                                                                         *)
(* The parser is outside the model: the operations take syntax trees, the  *)
(* records built by the constructors of the "syntax tree" section, one     *)
(* kind per grammar rule the evaluator matches on.  The text of a literal  *)
(* is a sequence of one-character strings.                                 *)
(***************************************************************************)
EXTENDS Integers, Sequences, FiniteSets, TLC

(***************************************************************************)
(* Bounds of the model.                                                    *)
(***************************************************************************)
\* deepest stack of frames a binding map of the interpreter may reach
MaxFrames == 2
\* most bindings the host defines in one binding map
MaxBindings == 2
\* most arguments of a call expression drawn as an input
MaxArgs == 2
\* longest text of a string literal drawn as an input
MaxLen == 5

(***************************************************************************)
(* Errors (errors.rs).  A result record carries err = NoError on Ok.       *)
(***************************************************************************)
NoError == "Ok"
ParseError == "ParseError"
TypeError == "TypeError"
ReferenceError == "ReferenceError"
InvalidArgumentsError == "InvalidArgumentsError"
DoubleDefinitionError == "DoubleDefinitionError"
\* not a JabroniError: the panic of an arithmetic overflow in a build that
\* checks for it; it unwinds through every caller as an error does
Panic == "Panic"

\* whether the build checks integer arithmetic for overflow (a debug build
\* does and panics, a release build does not and wraps)
VARIABLE overflow_checks

(***************************************************************************)
(* Values (value.rs).  The tag is the enum discriminant.  A String holds   *)
(* a sequence of characters; an Object holds a binding map (a sequence of  *)
(* frames); a Subroutine holds its arity (<<>> for None, <<n>> for         *)
(* Some(n)) and its callback.                                              *)
(***************************************************************************)
Number(n) == [tag |-> "Number", n |-> n]
Boolean(b) == [tag |-> "Boolean", b |-> b]
String(s) == [tag |-> "String", s |-> s]
Object(maps) == [tag |-> "Object", maps |-> maps]
SubroutineValue(sub) == [tag |-> "Subroutine", sub |-> sub]
Null == [tag |-> "Null"]

\* std::mem::discriminant
discriminant(value) == value.tag

\* Number is i32.  The wrapping operators below never form an intermediate
\* number outside the range of i32.
I32Max == 2147483647
I32Min == -I32Max - 1
\* a + b modulo 2^32
wrapping_add(a, b) ==
    IF b > 0 /\ a > I32Max - b THEN ((a - I32Max) - 1) + (b + I32Min)
    ELSE IF b < 0 /\ a < I32Min - b THEN (a - I32Min) + (b - I32Min)
    ELSE a + b
\* a - b modulo 2^32
wrapping_sub(a, b) ==
    IF b = I32Min
    THEN IF a < 0 THEN a - I32Min ELSE a + I32Min
    ELSE wrapping_add(a, -b)
\* a * b modulo 2^32: the operands are split in halves of 16 bits and the
\* low product in quarters of 8 bits, whose products stay in the range of i32
wrapping_mul(a, b) ==
    LET al == a % 65536
        ah == a \div 65536
        bl == b % 65536
        bh == b \div 65536
        p1 == al * (bl \div 256)
        p0 == al * (bl % 256)
        low == ((p1 % 256) * 256) + p0
        carry == (p1 \div 256) + (low \div 65536)
        high == (((ah * bl) % 65536) + ((al * bh) % 65536) + carry) % 65536
    IN (IF high >= 32768 THEN high - 65536 ELSE high) * 65536 + (low % 65536)

(***************************************************************************)
(* Bindings (binding.rs).  defTag is a history field: the tag of the value *)
(* the binding was constructed with; no operation reads it.                *)
(***************************************************************************)
new(value, mutable) ==
    [mutable |-> mutable, value |-> value, defTag |-> discriminant(value)]
constant(value) == new(value, FALSE)
variable(value) == new(value, TRUE)

\* Binding::set_value: the binding afterwards and the error
set_value_notag(binding, value) ==
    IF ~binding.mutable
    THEN [err |-> TypeError, binding |-> binding]
    ELSE [err |-> NoError, binding |-> [binding EXCEPT !.value = value]]

set_value_nomut(binding, value) ==
    IF discriminant(binding.value) # discriminant(value)
    THEN [err |-> TypeError, binding |-> binding]
    ELSE [err |-> NoError, binding |-> [binding EXCEPT !.value = value]]

set_value(binding, value) ==
    IF discriminant(binding.value) # discriminant(value)
    THEN [err |-> TypeError, binding |-> binding]
    ELSE IF ~binding.mutable
    THEN [err |-> TypeError, binding |-> binding]
    ELSE [err |-> NoError, binding |-> [binding EXCEPT !.value = value]]

(***************************************************************************)
(* Binding maps (binding.rs): a sequence of frames, the last one the top;  *)
(* each frame a function from the identifiers it holds to bindings.        *)
(***************************************************************************)
EmptyFrame == [i \in {} |-> 0]
insert(frame, ident, binding) ==
    [i \in (DOMAIN frame) \cup {ident} |-> IF i = ident THEN binding ELSE frame[i]]

\* BindingMap::default
default == <<EmptyFrame>>

\* BindingMap::clone_with_new_scope
clone_same_scope(maps) == maps

clone_with_new_scope(maps) == Append(maps, EmptyFrame)

\* BindingMap::has_on_top
has_on_top(maps, ident) == ident \in DOMAIN maps[Len(maps)]

\* BindingMap::set
set(maps, ident, binding) ==
    [maps EXCEPT ![Len(maps)] = insert(@, ident, binding)]

\* the frames of maps that hold ident
FramesWith(maps, ident) == {i \in 1..Len(maps) : ident \in DOMAIN maps[i]}
Highest(S) == CHOOSE i \in S : \A j \in S : j <= i
Lowest(S) == CHOOSE i \in S : \A j \in S : i <= j

\* BindingMap::get_mut: the frame of the binding found (the reference is
\* the pair of that frame and the identifier), walking from the top frame
get_mut_oldest(maps, ident) ==
    IF FramesWith(maps, ident) = {}
    THEN [err |-> ReferenceError, frame |-> 0]
    ELSE [err |-> NoError, frame |-> Lowest(FramesWith(maps, ident))]

get_mut(maps, ident) ==
    IF FramesWith(maps, ident) = {}
    THEN [err |-> ReferenceError, frame |-> 0]
    ELSE [err |-> NoError, frame |-> Highest(FramesWith(maps, ident))]

\* BindingMap::get: the binding found, walking from the top frame
get_oldest(maps, ident) ==
    IF FramesWith(maps, ident) = {}
    THEN [err |-> ReferenceError, binding |-> constant(Null)]
    ELSE [err |-> NoError, binding |-> maps[Lowest(FramesWith(maps, ident))][ident]]

get(maps, ident) ==
    IF FramesWith(maps, ident) = {}
    THEN [err |-> ReferenceError, binding |-> constant(Null)]
    ELSE [err |-> NoError, binding |-> maps[Highest(FramesWith(maps, ident))][ident]]

(***************************************************************************)
(* utils.rs: unquote.  A literal is a sequence of one-character strings.   *)
(***************************************************************************)
RECURSIVE unquote_loop(_, _, _, _, _)
\* the while loop of unquote: i is the next character read by string.next()
unquote_loop_unescaped(string, i, terminator, backslash, output) ==
    IF i > Len(string)
    THEN [err |-> ParseError, s |-> <<>>]
    ELSE LET c == string[i] IN
         IF c = "\\" /\ ~backslash
         THEN unquote_loop(string, i + 1, terminator, TRUE, output)
         ELSE IF c = terminator
         THEN IF i < Len(string)
              THEN [err |-> ParseError, s |-> <<>>]
              ELSE [err |-> NoError, s |-> output]
         ELSE IF backslash
         THEN IF c = "n" THEN unquote_loop(string, i + 1, terminator, FALSE, Append(output, "\n"))
              ELSE IF c = "t" THEN unquote_loop(string, i + 1, terminator, FALSE, Append(output, "\t"))
              ELSE IF c = "r" THEN unquote_loop(string, i + 1, terminator, FALSE, Append(output, "\r"))
              ELSE IF c = "\\" \/ c = "'" \/ c = "\""
              THEN unquote_loop(string, i + 1, terminator, FALSE, Append(output, c))
              ELSE [err |-> ParseError, s |-> <<>>]
         ELSE unquote_loop(string, i + 1, terminator, FALSE, Append(output, c))

unquote_loop(string, i, terminator, backslash, output) ==
    IF i > Len(string)
    THEN [err |-> ParseError, s |-> <<>>]
    ELSE LET c == string[i] IN
         IF c = "\\" /\ ~backslash
         THEN unquote_loop(string, i + 1, terminator, TRUE, output)
         ELSE IF c = terminator /\ ~backslash
         THEN IF i < Len(string)
              THEN [err |-> ParseError, s |-> <<>>]
              ELSE [err |-> NoError, s |-> output]
         ELSE IF backslash
         THEN IF c = "n" THEN unquote_loop(string, i + 1, terminator, FALSE, Append(output, "\n"))
              ELSE IF c = "t" THEN unquote_loop(string, i + 1, terminator, FALSE, Append(output, "\t"))
              ELSE IF c = "r" THEN unquote_loop(string, i + 1, terminator, FALSE, Append(output, "\r"))
              ELSE IF c = "\\" \/ c = "'" \/ c = "\""
              THEN unquote_loop(string, i + 1, terminator, FALSE, Append(output, c))
              ELSE [err |-> ParseError, s |-> <<>>]
         ELSE unquote_loop(string, i + 1, terminator, FALSE, Append(output, c))

unquote(string) ==
    IF Len(string) < 2
    THEN [err |-> ParseError, s |-> <<>>]
    ELSE IF string[1] # "\"" /\ string[1] # "'"
    THEN [err |-> ParseError, s |-> <<>>]
    ELSE unquote_loop(string, 2, string[1], FALSE, <<>>)

(***************************************************************************)
(* value.rs: the literal constructors and the operators.  An operator on   *)
(* &mut self gives the error and the value self holds afterwards.          *)
(***************************************************************************)
from_string_literal(literal) ==
    LET r == unquote(literal) IN
    IF r.err # NoError
    THEN [err |-> r.err, value |-> Null]
    ELSE [err |-> NoError, value |-> String(r.s)]

\* the value of a decimal digit, 10 for any other character
digit(c) ==
    IF c = "0" THEN 0 ELSE IF c = "1" THEN 1 ELSE IF c = "2" THEN 2
    ELSE IF c = "3" THEN 3 ELSE IF c = "4" THEN 4 ELSE IF c = "5" THEN 5
    ELSE IF c = "6" THEN 6 ELSE IF c = "7" THEN 7 ELSE IF c = "8" THEN 8
    ELSE IF c = "9" THEN 9 ELSE 10

RECURSIVE parse_digits(_, _, _, _)
\* str::parse::<i32> over the digits from i on: the accumulator moves away
\* from zero and the parse fails when it leaves the range of i32
parse_digits(literal, i, negative, acc) ==
    IF i > Len(literal) THEN [err |-> NoError, n |-> acc]
    ELSE LET d == digit(literal[i]) IN
         IF d = 10 THEN [err |-> ParseError, n |-> 0]
         ELSE IF negative
         THEN IF acc < (I32Min + d) \div 10 + (IF (I32Min + d) % 10 = 0 THEN 0 ELSE 1)
              THEN [err |-> ParseError, n |-> 0]
              ELSE parse_digits(literal, i + 1, negative, acc * 10 - d)
         ELSE IF acc > (I32Max - d) \div 10
              THEN [err |-> ParseError, n |-> 0]
              ELSE parse_digits(literal, i + 1, negative, acc * 10 + d)

\* literal.parse::<i32>(): an optional sign, then at least one digit
parse_i32(literal) ==
    IF Len(literal) = 0 THEN [err |-> ParseError, n |-> 0]
    ELSE IF literal[1] = "-" \/ literal[1] = "+"
    THEN IF Len(literal) = 1 THEN [err |-> ParseError, n |-> 0]
         ELSE parse_digits(literal, 2, literal[1] = "-", 0)
    ELSE parse_digits(literal, 1, FALSE, 0)

from_numeric_literal(literal) ==
    LET r == parse_i32(literal) IN
    IF r.err # NoError
    THEN [err |-> r.err, value |-> Null]
    ELSE [err |-> NoError, value |-> Number(r.n)]

from_boolean_literal(literal) ==
    IF literal = <<"t", "r", "u", "e">>
    THEN [err |-> NoError, value |-> Boolean(TRUE)]
    ELSE IF literal = <<"f", "a", "l", "s", "e">>
    THEN [err |-> NoError, value |-> Boolean(FALSE)]
    ELSE [err |-> ParseError, value |-> Null]

\* whether a + b, a - b, a * b leave the range of i32
add_overflows(a, b) ==
    \/ b > 0 /\ a > I32Max - b
    \/ b < 0 /\ a < I32Min - b
sub_overflows(a, b) ==
    \/ b < 0 /\ a > I32Max + b
    \/ b > 0 /\ a < I32Min + b
abs(a) == IF a < 0 THEN -a ELSE a
mul_overflows(a, b) ==
    IF a = 0 \/ b = 0 THEN FALSE
    ELSE IF a = I32Min THEN b # 1
    ELSE IF b = I32Min THEN a # 1
    ELSE IF (a < 0) = (b < 0)
    THEN abs(a) > I32Max \div abs(b)
    ELSE abs(a) > (I32Max \div abs(b))
                      + (IF I32Max % abs(b) = abs(b) - 1 THEN 1 ELSE 0)

\* *self.unwrap_as_number()? += value.unwrap_into_number()?
add(self, value) ==
    IF self.tag # "Number" THEN [err |-> TypeError, value |-> self]
    ELSE IF value.tag # "Number" THEN [err |-> TypeError, value |-> self]
    ELSE IF overflow_checks /\ add_overflows(self.n, value.n)
    THEN [err |-> Panic, value |-> self]
    ELSE [err |-> NoError, value |-> Number(wrapping_add(self.n, value.n))]

subtract(self, value) ==
    IF self.tag # "Number" THEN [err |-> TypeError, value |-> self]
    ELSE IF value.tag # "Number" THEN [err |-> TypeError, value |-> self]
    ELSE IF overflow_checks /\ sub_overflows(self.n, value.n)
    THEN [err |-> Panic, value |-> self]
    ELSE [err |-> NoError, value |-> Number(wrapping_sub(self.n, value.n))]

multiply(self, value) ==
    IF self.tag # "Number" THEN [err |-> TypeError, value |-> self]
    ELSE IF value.tag # "Number" THEN [err |-> TypeError, value |-> self]
    ELSE IF overflow_checks /\ mul_overflows(self.n, value.n)
    THEN [err |-> Panic, value |-> self]
    ELSE [err |-> NoError, value |-> Number(wrapping_mul(self.n, value.n))]

inverse(self) ==
    IF self.tag = "Boolean"
    THEN [err |-> NoError, value |-> Boolean(~self.b)]
    ELSE [err |-> TypeError, value |-> self]

compare_loose(self, value, allow_type_diff) ==
    IF discriminant(self) # discriminant(value)
    THEN [err |-> NoError, value |-> Boolean(FALSE)]
    ELSE IF value.tag = "Null" /\ ~allow_type_diff
    THEN [err |-> TypeError, value |-> self]
    ELSE IF self.tag = "Boolean" THEN [err |-> NoError, value |-> Boolean(self.b = value.b)]
    ELSE IF self.tag = "Number" THEN [err |-> NoError, value |-> Boolean(self.n = value.n)]
    ELSE IF self.tag = "String" THEN [err |-> NoError, value |-> Boolean(self.s = value.s)]
    ELSE IF self.tag = "Null" THEN [err |-> NoError, value |-> Boolean(TRUE)]
    ELSE [err |-> TypeError, value |-> self]

compare(self, value, allow_type_diff) ==
    IF discriminant(self) # discriminant(value)
    THEN IF allow_type_diff
         THEN [err |-> NoError, value |-> Boolean(FALSE)]
         ELSE [err |-> TypeError, value |-> Boolean(FALSE)]
    ELSE IF value.tag = "Null" /\ ~allow_type_diff
    THEN [err |-> TypeError, value |-> self]
    ELSE IF self.tag = "Boolean" THEN [err |-> NoError, value |-> Boolean(self.b = value.b)]
    ELSE IF self.tag = "Number" THEN [err |-> NoError, value |-> Boolean(self.n = value.n)]
    ELSE IF self.tag = "String" THEN [err |-> NoError, value |-> Boolean(self.s = value.s)]
    ELSE IF self.tag = "Null" THEN [err |-> NoError, value |-> Boolean(TRUE)]
    ELSE [err |-> TypeError, value |-> self]

(***************************************************************************)
(* Subroutines (value.rs).  A callback is either native, known to the      *)
(* model by its name, or interpreted: the closure a function statement     *)
(* builds from the parameter names and the body.                           *)
(***************************************************************************)
NoArity == <<>>
Arity(n) == <<n>>
NativeCallback(name) ==
    [native |-> TRUE, name |-> name, params |-> <<>>, body |-> <<>>]
InterpretedCallback(name, params, body) ==
    [native |-> FALSE, name |-> name, params |-> params, body |-> body]
\* Subroutine::new
Subroutine_new(number_of_args, callback) ==
    [arity |-> Arity(number_of_args), callback |-> callback]
\* Subroutine::new_variadic
new_variadic(callback) == [arity |-> NoArity, callback |-> callback]

(***************************************************************************)
(* The syntax tree the parser hands over: one record per pair, its kind    *)
(* the grammar rule that interpret_lvalue, interpret_expression and        *)
(* interpret_statement match on.  A script is the sequence of its          *)
(* statement pairs.                                                        *)
(***************************************************************************)
Ident(id) == [kind |-> "ident", id |-> id]
Kernel(inner) == [kind |-> "kernel", inner |-> inner]
\* object is the text of the first inner pair, member the second inner pair
MemberAccess(object, member) ==
    [kind |-> "member_access", object |-> object, member |-> member]
FunctionCall(callee, args) ==
    [kind |-> "function_call", callee |-> callee, args |-> args]
Ternary(condition, first, second) ==
    [kind |-> "ternary", condition |-> condition, first |-> first, second |-> second]
StringLiteral(literal) == [kind |-> "string_literal", literal |-> literal]
NumericLiteral(literal) == [kind |-> "numeric_literal", literal |-> literal]
BooleanLiteral(literal) == [kind |-> "boolean_literal", literal |-> literal]
NullLiteral == [kind |-> "null_literal"]
Expression(inner) == [kind |-> "expression", inner |-> inner]
Assignment(lhs, operator, rhs) ==
    [kind |-> "assignment", lhs |-> lhs, operator |-> operator, rhs |-> rhs]
\* a comparison, sum or product pair: the first operand, then the
\* <<operator, operand>> pairs that follow it
Chain(rule, first, rest) == [kind |-> rule, first |-> first, rest |-> rest]
Statement(inner) == [kind |-> "statement", inner |-> inner]
BlockStatement(statements) == [kind |-> "block_statement", statements |-> statements]
\* body is the script the text of the body pair parses to
FunctionStatement(name, params, body) ==
    [kind |-> "function_statement", name |-> name, params |-> params, body |-> body]
ReturnStatement(inner) == [kind |-> "return_statement", inner |-> inner]

(***************************************************************************)
(* The evaluator (state.rs).  A reference to a binding is a path: the      *)
(* <<frame, identifier>> steps from the binding map down through the       *)
(* objects to the binding.  An evaluation gives the error, the value, the  *)
(* binding map afterwards and the log of what ran: an entry per            *)
(* expression pair and statement pair interpreted and per callback run.    *)
(***************************************************************************)
RECURSIVE deref(_, _)
\* the binding a path refers to
deref(maps, path) ==
    LET binding == maps[path[1][1]][path[1][2]] IN
    IF Len(path) = 1 THEN binding ELSE deref(binding.value.maps, Tail(path))

RECURSIVE store(_, _, _)
\* the binding map with the binding at path replaced
store(maps, path, binding) ==
    LET f == path[1][1]
        id == path[1][2]
    IN IF Len(path) = 1
       THEN [maps EXCEPT ![f] = insert(@, id, binding)]
       ELSE [maps EXCEPT ![f] = insert(@, id,
                [maps[f][id] EXCEPT !.value =
                    Object(store(maps[f][id].value.maps, Tail(path), binding))])]

RECURSIVE interpret_lvalue(_, _)
interpret_lvalue_reference(pair, bindings) ==
    IF pair.kind = "ident"
    THEN LET r == get_mut(bindings, pair.id) IN
         IF r.err # NoError
         THEN [err |-> r.err, path |-> <<>>]
         ELSE [err |-> NoError, path |-> << <<r.frame, pair.id>> >>]
    ELSE IF pair.kind = "kernel"
    THEN interpret_lvalue(pair.inner, bindings)
    ELSE IF pair.kind = "member_access"
    THEN LET r == get_mut(bindings, pair.object) IN
         IF r.err # NoError
         THEN [err |-> r.err, path |-> <<>>]
         ELSE LET value == bindings[r.frame][pair.object].value IN
              IF value.tag # "Object"
              THEN [err |-> ReferenceError, path |-> <<>>]
              ELSE LET inner == interpret_lvalue(pair.member, value.maps) IN
                   IF inner.err # NoError
                   THEN inner
                   ELSE [err |-> NoError,
                         path |-> << <<r.frame, pair.object>> >> \o inner.path]
    ELSE [err |-> ParseError, path |-> <<>>]

interpret_lvalue(pair, bindings) ==
    IF pair.kind = "ident"
    THEN LET r == get_mut(bindings, pair.id) IN
         IF r.err # NoError
         THEN [err |-> r.err, path |-> <<>>]
         ELSE [err |-> NoError, path |-> << <<r.frame, pair.id>> >>]
    ELSE IF pair.kind = "kernel"
    THEN interpret_lvalue(pair.inner, bindings)
    ELSE IF pair.kind = "member_access"
    THEN LET r == get_mut(bindings, pair.object) IN
         IF r.err # NoError
         THEN [err |-> r.err, path |-> <<>>]
         ELSE LET value == bindings[r.frame][pair.object].value IN
              IF value.tag # "Object"
              THEN [err |-> TypeError, path |-> <<>>]
              ELSE LET inner == interpret_lvalue(pair.member, value.maps) IN
                   IF inner.err # NoError
                   THEN inner
                   ELSE [err |-> NoError,
                         path |-> << <<r.frame, pair.object>> >> \o inner.path]
    ELSE [err |-> ParseError, path |-> <<>>]

Ok(val, b, log) == [err |-> NoError, val |-> val, b |-> b, log |-> log]
Err(err, b, log) == [err |-> err, val |-> Null, b |-> b, log |-> log]
ExprEvent(pair) == [ev |-> "expression", pair |-> pair]
StmtEvent(pair) == [ev |-> "statement", pair |-> pair]
CallbackEvent(callback) == [ev |-> "callback", pair |-> callback]

\* the native callbacks the hosts of the repository install: console.log of
\* the command line front end, and the function of the tests that returns 42
native(name, args) ==
    IF name = "log" THEN Null ELSE Number(42)

RECURSIVE interpret_expression(_, _)
RECURSIVE interpret_statement(_, _)
RECURSIVE run_script(_, _)
RECURSIVE callback(_, _, _)
RECURSIVE arguments(_, _, _, _, _)
RECURSIVE fold(_, _, _, _, _)
RECURSIVE statements(_, _, _, _, _)

\* Subroutine::call
call_unchecked(subroutine, context, args) == callback(subroutine.callback, context, args)

call(subroutine, context, args) ==
    IF subroutine.arity # NoArity /\ Len(args) # subroutine.arity[1]
    THEN [err |-> InvalidArgumentsError, val |-> Null, log |-> <<>>]
    ELSE callback(subroutine.callback, context, args)

\* the call of the evaluator's function_call arm: through Subroutine::call,
\* with a nested copy of the caller's bindings as the context
invoke(subroutine, bindings, args) ==
    call(subroutine, clone_with_new_scope(bindings), args)

\* substate.bindings.set(param, Binding::constant(arg)) over params.zip(args)
RECURSIVE pass(_, _, _, _)
pass(maps, params, args, i) ==
    IF i > Len(params) \/ i > Len(args)
    THEN maps
    ELSE pass(set(maps, params[i], constant(args[i])), params, args, i + 1)

\* a callback run: a native one by its name, an interpreted one as the
\* closure of the function statement
callback_in_context(cb, context, args) ==
    IF cb.native
    THEN [err |-> NoError, val |-> native(cb.name, args), log |-> <<CallbackEvent(cb)>>]
    ELSE IF Len(args) # Len(cb.params)
    THEN [err |-> InvalidArgumentsError, val |-> Null, log |-> <<CallbackEvent(cb)>>]
    ELSE LET substate == pass(context, cb.params, args, 1)
             r == run_script(cb.body, substate)
         IN [err |-> r.err, val |-> r.val, log |-> <<CallbackEvent(cb)>> \o r.log]

callback(cb, context, args) ==
    IF cb.native
    THEN [err |-> NoError, val |-> native(cb.name, args), log |-> <<CallbackEvent(cb)>>]
    ELSE IF Len(args) # Len(cb.params)
    THEN [err |-> InvalidArgumentsError, val |-> Null, log |-> <<CallbackEvent(cb)>>]
    ELSE LET substate == pass(default, cb.params, args, 1)
             r == run_script(cb.body, substate)
         IN [err |-> r.err, val |-> r.val, log |-> <<CallbackEvent(cb)>> \o r.log]

\* the loop over the argument pairs of a function call
arguments(pairs, i, args, b, log) ==
    IF i > Len(pairs)
    THEN [err |-> NoError, args |-> args, b |-> b, log |-> log]
    ELSE LET r == interpret_expression(pairs[i], b) IN
         IF r.err # NoError
         THEN [err |-> r.err, args |-> args, b |-> r.b, log |-> log \o r.log]
         ELSE arguments(pairs, i + 1, Append(args, r.val), r.b, log \o r.log)

\* one operator of a comparison, sum or product applied to value
apply_strict(operator, value, operand) ==
    IF operator = "==" THEN compare(value, operand, FALSE)
    ELSE IF operator = "===" THEN compare(value, operand, FALSE)
    ELSE IF operator = "+" THEN add(value, operand)
    ELSE IF operator = "-" THEN subtract(value, operand)
    ELSE multiply(value, operand)

apply(operator, value, operand) ==
    IF operator = "==" THEN compare(value, operand, FALSE)
    ELSE IF operator = "===" THEN compare(value, operand, TRUE)
    ELSE IF operator = "+" THEN add(value, operand)
    ELSE IF operator = "-" THEN subtract(value, operand)
    ELSE multiply(value, operand)

\* the while loop over the <<operator, operand>> pairs of a chain
RECURSIVE fold_right(_, _, _, _, _)
fold_right(rest, i, value, b, log) ==
    IF i > Len(rest)
    THEN Ok(value, b, log)
    ELSE LET r == interpret_expression(rest[i][2], b) IN
         IF r.err # NoError
         THEN Err(r.err, r.b, log \o r.log)
         ELSE LET tail == fold_right(rest, i + 1, r.val, r.b, log \o r.log) IN
              IF tail.err # NoError
              THEN tail
              ELSE LET a == apply(rest[i][1], value, tail.val) IN
                   IF a.err # NoError
                   THEN Err(a.err, tail.b, tail.log)
                   ELSE Ok(a.value, tail.b, tail.log)

fold(rest, i, value, b, log) ==
    IF i > Len(rest)
    THEN Ok(value, b, log)
    ELSE LET r == interpret_expression(rest[i][2], b) IN
         IF r.err # NoError
         THEN Err(r.err, r.b, log \o r.log)
         ELSE LET a == apply(rest[i][1], value, r.val) IN
              IF a.err # NoError
              THEN Err(a.err, r.b, log \o r.log)
              ELSE fold(rest, i + 1, a.value, r.b, log \o r.log)

\* the function_call arm of interpret_expression
function_call_eager(pair, b, log) ==
    LET args == arguments(pair.args, 1, <<>>, b, log) IN
    IF args.err # NoError
    THEN Err(args.err, args.b, args.log)
    ELSE LET lvalue == interpret_lvalue(pair.callee, args.b) IN
         IF lvalue.err # NoError
         THEN Err(lvalue.err, args.b, args.log)
         ELSE LET value == deref(args.b, lvalue.path).value IN
              IF value.tag # "Subroutine"
              THEN Err(TypeError, args.b, args.log)
              ELSE LET r == invoke(value.sub, args.b, args.args) IN
                   [err |-> r.err, val |-> r.val, b |-> args.b,
                    log |-> args.log \o r.log]

function_call(pair, b, log) ==
    LET lvalue == interpret_lvalue(pair.callee, b) IN
    IF lvalue.err # NoError
    THEN Err(lvalue.err, b, log)
    ELSE LET value == deref(b, lvalue.path).value IN
         IF value.tag # "Subroutine"
         THEN Err(TypeError, b, log)
         ELSE LET args == arguments(pair.args, 1, <<>>, b, log) IN
              IF args.err # NoError
              THEN Err(args.err, args.b, args.log)
              ELSE LET r == invoke(value.sub, args.b, args.args) IN
                   [err |-> r.err, val |-> r.val, b |-> args.b,
                    log |-> args.log \o r.log]

\* the ternary arm of interpret_expression
ternary_eager(pair, b, log) ==
    LET condition == interpret_expression(pair.condition, b) IN
    IF condition.err # NoError
    THEN Err(condition.err, condition.b, log \o condition.log)
    ELSE IF condition.val.tag = "Boolean"
    THEN LET first == interpret_expression(pair.first, condition.b)
             second == interpret_expression(pair.second, first.b)
         IN IF first.err # NoError
            THEN Err(first.err, first.b, log \o condition.log \o first.log)
            ELSE IF second.err # NoError
            THEN Err(second.err, second.b, log \o condition.log \o first.log \o second.log)
            ELSE Ok(IF condition.val.b THEN first.val ELSE second.val, second.b,
                    log \o condition.log \o first.log \o second.log)
    ELSE Err(TypeError, condition.b, log \o condition.log)

ternary(pair, b, log) ==
    LET condition == interpret_expression(pair.condition, b) IN
    IF condition.err # NoError
    THEN Err(condition.err, condition.b, log \o condition.log)
    ELSE IF condition.val.tag = "Boolean"
    THEN LET r == interpret_expression(
                   IF condition.val.b THEN pair.first ELSE pair.second,
                   condition.b)
         IN [r EXCEPT !.log = log \o condition.log \o r.log]
    ELSE Err(TypeError, condition.b, log \o condition.log)

\* the assignment arm of interpret_expression
assignment_value(pair, b, log) ==
    LET operand == interpret_expression(pair.rhs, b) IN
    IF operand.err # NoError
    THEN Err(operand.err, operand.b, log \o operand.log)
    ELSE LET lvalue == interpret_lvalue(pair.lhs, operand.b) IN
         IF lvalue.err # NoError
         THEN Err(lvalue.err, operand.b, log \o operand.log)
         ELSE LET r == set_value(deref(operand.b, lvalue.path), operand.val) IN
              IF r.err # NoError
              THEN Err(r.err, operand.b, log \o operand.log)
              ELSE Ok(operand.val, store(operand.b, lvalue.path, r.binding),
                      log \o operand.log)

assignment(pair, b, log) ==
    LET operand == interpret_expression(pair.rhs, b) IN
    IF operand.err # NoError
    THEN Err(operand.err, operand.b, log \o operand.log)
    ELSE LET lvalue == interpret_lvalue(pair.lhs, operand.b) IN
         IF lvalue.err # NoError
         THEN Err(lvalue.err, operand.b, log \o operand.log)
         ELSE LET r == set_value(deref(operand.b, lvalue.path), operand.val) IN
              IF r.err # NoError
              THEN Err(r.err, operand.b, log \o operand.log)
              ELSE Ok(Null, store(operand.b, lvalue.path, r.binding),
                      log \o operand.log)

\* the comparison | sum | product arm of interpret_expression
chain(pair, b, log) ==
    LET first == interpret_expression(pair.first, b) IN
    IF first.err # NoError
    THEN Err(first.err, first.b, log \o first.log)
    ELSE fold(pair.rest, 1, first.val, first.b, log \o first.log)

interpret_expression(pair, b) ==
    LET log == <<ExprEvent(pair)>> IN
    IF pair.kind = "ident"
    THEN LET r == get(b, pair.id) IN
         IF r.err # NoError THEN Err(r.err, b, log) ELSE Ok(r.binding.value, b, log)
    ELSE IF pair.kind = "member_access"
    THEN LET lvalue == interpret_lvalue(pair, b) IN
         IF lvalue.err # NoError
         THEN Err(lvalue.err, b, log)
         ELSE Ok(deref(b, lvalue.path).value, b, log)
    ELSE IF pair.kind = "function_call" THEN function_call(pair, b, log)
    ELSE IF pair.kind = "ternary" THEN ternary(pair, b, log)
    ELSE IF pair.kind = "string_literal"
    THEN LET r == from_string_literal(pair.literal) IN
         IF r.err # NoError THEN Err(r.err, b, log) ELSE Ok(r.value, b, log)
    ELSE IF pair.kind = "numeric_literal"
    THEN LET r == from_numeric_literal(pair.literal) IN
         IF r.err # NoError THEN Err(r.err, b, log) ELSE Ok(r.value, b, log)
    ELSE IF pair.kind = "boolean_literal"
    THEN LET r == from_boolean_literal(pair.literal) IN
         IF r.err # NoError THEN Err(r.err, b, log) ELSE Ok(r.value, b, log)
    ELSE IF pair.kind = "null_literal"
    THEN Ok(Null, b, log)
    ELSE IF pair.kind = "expression"
    THEN LET r == interpret_expression(pair.inner, b) IN
         [r EXCEPT !.log = log \o r.log]
    ELSE IF pair.kind = "assignment" THEN assignment(pair, b, log)
    ELSE chain(pair, b, log)

\* the for loop of a block statement and of run_script over statement pairs
RECURSIVE statements_all(_, _, _, _, _)
statements_all(pairs, i, value, b, log) ==
    IF i > Len(pairs)
    THEN Ok(value, b, log)
    ELSE LET r == interpret_statement(pairs[i], b)
             rest == statements_all(pairs, i + 1, r.val, r.b, log \o r.log)
         IN IF r.err # NoError THEN Err(r.err, rest.b, rest.log) ELSE rest

statements(pairs, i, value, b, log) ==
    IF i > Len(pairs)
    THEN Ok(value, b, log)
    ELSE LET r == interpret_statement(pairs[i], b) IN
         IF r.err # NoError
         THEN Err(r.err, r.b, log \o r.log)
         ELSE statements(pairs, i + 1, r.val, r.b, log \o r.log)

\* the Subroutine a function statement builds
function_subroutine(pair) ==
    Subroutine_new(Len(pair.params),
                   InterpretedCallback(pair.name, pair.params, pair.body))

\* the binding of the name a function statement declares
declare(b, pair) ==
    Ok(Null, set(b, pair.name, constant(SubroutineValue(function_subroutine(pair)))), <<>>)

interpret_statement(pair, b) ==
    LET log == <<StmtEvent(pair)>> IN
    IF pair.kind = "expression"
    THEN LET r == interpret_expression(pair, b) IN
         IF r.err # NoError
         THEN Err(r.err, r.b, log \o r.log)
         ELSE Ok(Null, r.b, log \o r.log)
    ELSE IF pair.kind = "statement"
    THEN LET r == interpret_statement(pair.inner, b) IN
         [r EXCEPT !.log = log \o r.log]
    ELSE IF pair.kind = "block_statement"
    THEN statements(pair.statements, 1, Null, b, log)
    ELSE IF pair.kind = "function_statement"
    THEN LET r == declare(b, pair) IN [r EXCEPT !.log = log]
    ELSE \* return_statement
         LET r == interpret_expression(pair.inner, b) IN
         [r EXCEPT !.log = log \o r.log]

\* Jabroni::run_script on the bindings b
run_script(code, b) == statements(code, 1, Null, b, <<>>)

\* Jabroni::run_expression on the bindings b
run_expression(code, b) == interpret_expression(code, b)

(***************************************************************************)
(* The interpreter (state.rs): the operations of the host on a Jabroni.    *)
(* Each gives the error, the value and the bindings afterwards.            *)
(***************************************************************************)
define_binding_anywhere(b, ident, value, mutable) ==
    IF FramesWith(b, ident) # {}
    THEN Err(DoubleDefinitionError, b, <<>>)
    ELSE Ok(Null, set(b, ident, new(value, mutable)), <<>>)

define_binding(b, ident, value, mutable) ==
    IF has_on_top(b, ident)
    THEN Err(DoubleDefinitionError, b, <<>>)
    ELSE Ok(Null, set(b, ident, new(value, mutable)), <<>>)

define_constant(b, ident, value) == define_binding(b, ident, value, FALSE)
define_variable(b, ident, value) == define_binding(b, ident, value, TRUE)

update_variable(b, ident, value) ==
    LET found == get_mut(b, ident) IN
    IF found.err # NoError
    THEN Err(found.err, b, <<>>)
    ELSE LET r == set_value(b[found.frame][ident], value) IN
         IF r.err # NoError
         THEN Err(r.err, b, <<>>)
         ELSE Ok(Null, store(b, << <<found.frame, ident>> >>, r.binding), <<>>)

(***************************************************************************)
(* The state: the bindings of the interpreter; the binding maps of the     *)
(* enclosing contexts, kept while a nested context runs on its own copy;   *)
(* and, as history, the bindings before the last operation and the         *)
(* operation itself with its result.  overflow_checks, declared with the   *)
(* errors, is fixed when the interpreter is built.                         *)
(***************************************************************************)
VARIABLES bindings, outer, pre, last
vars == <<bindings, outer, pre, last, overflow_checks>>

Operation(op, ident, value, code, r) ==
    [op |-> op, ident |-> ident, value |-> value, code |-> code,
     err |-> r.err, val |-> r.val, log |-> r.log]

\* the number of bindings a binding map holds, over all its frames
RECURSIVE Size(_)
Size(maps) ==
    IF Len(maps) = 0 THEN 0
    ELSE Cardinality(DOMAIN maps[Len(maps)]) + Size(SubSeq(maps, 1, Len(maps) - 1))

\* Jabroni::new
Init ==
    /\ bindings = default
    /\ outer = <<>>
    /\ pre = default
    /\ last = Operation("new", "", Null, <<>>, Ok(Null, default, <<>>))
    /\ overflow_checks \in BOOLEAN

Step(op, ident, value, code, r) ==
    /\ bindings' = r.b
    /\ pre' = bindings
    /\ last' = Operation(op, ident, value, code, r)
    /\ UNCHANGED <<outer, overflow_checks>>

DefineConstant(idents, values) ==
    \E ident \in idents, value \in values :
        /\ has_on_top(bindings, ident) \/ Size(bindings) < MaxBindings
        /\ Step("define_constant", ident, value, <<>>,
                define_constant(bindings, ident, value))

DefineVariable(idents, values) ==
    \E ident \in idents, value \in values :
        /\ has_on_top(bindings, ident) \/ Size(bindings) < MaxBindings
        /\ Step("define_variable", ident, value, <<>>,
                define_variable(bindings, ident, value))

UpdateVariable(idents, values) ==
    \E ident \in idents, value \in values :
        Step("update_variable", ident, value, <<>>,
             update_variable(bindings, ident, value))

RunExpression(codes) ==
    \E code \in codes :
        Step("run_expression", "", Null, code, run_expression(code, bindings))

RunScript(codes) ==
    \E code \in codes :
        Step("run_script", "", Null, code, run_script(code, bindings))

\* a nested context starts: it runs on a copy of the bindings with a new
\* top frame, and the bindings of the enclosing context are kept
EnterContext ==
    /\ Len(bindings) < MaxFrames
    /\ bindings' = clone_with_new_scope(bindings)
    /\ outer' = Append(outer, bindings)
    /\ pre' = bindings
    /\ last' = Operation("enter", "", Null, <<>>, Ok(Null, bindings, <<>>))
    /\ UNCHANGED overflow_checks

\* the nested context ends: its binding map is dropped
LeaveContext ==
    /\ Len(outer) > 0
    /\ bindings' = outer[Len(outer)]
    /\ outer' = SubSeq(outer, 1, Len(outer) - 1)
    /\ pre' = bindings
    /\ last' = Operation("leave", "", Null, <<>>, Ok(Null, bindings, <<>>))
    /\ UNCHANGED overflow_checks

(***************************************************************************)
(* Spec: a host that defines, updates and assigns numbers and booleans,    *)
(* in the top level context and in nested contexts.                        *)
(***************************************************************************)
Idents == {"x", "y"}
DefineValues == {Number(8), Boolean(TRUE)}
UpdateValues == {Number(8), Number(0), Boolean(TRUE)}
True == BooleanLiteral(<<"t", "r", "u", "e">>)
False == BooleanLiteral(<<"f", "a", "l", "s", "e">>)
Literals == {NumericLiteral(<<"8">>), NumericLiteral(<<"0">>), True}
Assignments ==
    {Assignment(Ident(id), "=", rhs) : id \in Idents, rhs \in Literals}
        \cup {Assignment(Ident("x"), "=", Ident("y"))}
Reads == {Ident(id) : id \in Idents}

Expressions == Assignments \cup Reads

Next ==
    \/ DefineConstant(Idents, DefineValues)
    \/ DefineVariable(Idents, DefineValues)
    \/ UpdateVariable(Idents, UpdateValues)
    \/ RunExpression(Expressions)
    \/ EnterContext
    \/ LeaveContext

Spec == Init /\ [][Next]_vars

(***************************************************************************)
(* SpecObject: a host that defines an object as the tests do, with a       *)
(* variable field and a constant field, and a number beside it, and        *)
(* updates and assigns them and their fields.                              *)
(***************************************************************************)
ObjectIdents == {"foo", "n"}
Record == Object(set(set(default, "bar", variable(Number(8))),
                     "baz", constant(Number(42))))
\* an object whose field bar holds another type
Other == Object(set(default, "bar", variable(Boolean(TRUE))))
ObjectDefineValues == {Record, Number(8)}
ObjectUpdateValues == {Number(0), Boolean(TRUE), Null, Other}
ObjectLvalues ==
    {Ident("foo"), Ident("n"), MemberAccess("n", Ident("bar")),
     MemberAccess("foo", Kernel(Ident("bar"))), MemberAccess("foo", Ident("baz")),
     MemberAccess("foo", Ident("qux")), MemberAccess("foo", MemberAccess("bar", Ident("baz")))}
ObjectAssignments ==
    {Assignment(lhs, "=", rhs) :
        lhs \in ObjectLvalues, rhs \in {NumericLiteral(<<"0">>), True}}
        \cup {Assignment(Ident("foo"), "=", Ident("n"))}
ObjectReads == ObjectLvalues

ObjectExpressions == ObjectAssignments \cup ObjectReads

NextObject ==
    \/ DefineConstant(ObjectIdents, ObjectDefineValues)
    \/ DefineVariable(ObjectIdents, ObjectDefineValues)
    \/ UpdateVariable(ObjectIdents, ObjectUpdateValues)
    \/ RunExpression(ObjectExpressions)

SpecObject == Init /\ [][NextObject]_vars

(***************************************************************************)
(* SpecEval: an interpreter the host has set up as the tests and the       *)
(* command line front end do, with a variable, a constant, a native        *)
(* function of no argument and a variadic native function; it runs         *)
(* function declarations, calls, ternaries and assignments.                *)
(***************************************************************************)
Boot ==
    LET b1 == define_variable(default, "x", Number(4)).b
        b2 == define_constant(b1, "FOO", Number(42)).b
        b3 == define_constant(b2, "bar",
                  SubroutineValue(Subroutine_new(0, NativeCallback("bar")))).b
    IN define_constant(b3, "log",
           SubroutineValue(new_variadic(NativeCallback("log")))).b

InitEval ==
    /\ bindings = Boot
    /\ outer = <<>>
    /\ pre = Boot
    /\ last = Operation("new", "", Null, <<>>, Ok(Null, Boot, <<>>))
    /\ overflow_checks \in BOOLEAN

Num(c) == NumericLiteral(<<c>>)
Assign(id, rhs) == Expression(Assignment(Ident(id), "=", rhs))
\* the script a function body { statements } parses to
Body(stmts) == <<Statement(BlockStatement(stmts))>>
Return(e) == Statement(ReturnStatement(e))
\* the parameters and the body of the functions declared
Functions ==
    { \* function f(a, b) { return a + b; }
      <<<<"a", "b">>, Body(<<Return(Chain("sum", Ident("a"), << <<"+", Ident("b")>> >>))>>)>>,
      \* function f(a) { return a; }
      <<<<"a">>, Body(<<Return(Ident("a"))>>)>>,
      \* function f() { return 1; return 2; }
      <<<<>>, Body(<<Return(Num("1")), Return(Num("2"))>>)>>,
      \* function f(a) { return a; 7; }
      <<<<"a">>, Body(<<Return(Ident("a")), Statement(Expression(Num("7")))>>)>>,
      \* function f() { 7; }
      <<<<>>, Body(<<Statement(Expression(Num("7")))>>)>>,
      \* function f() { return x; }
      <<<<>>, Body(<<Return(Ident("x"))>>)>>,
      \* function f(a) { return FOO; }
      <<<<"a">>, Body(<<Return(Ident("FOO"))>>)>>,
      \* function f() { return bar(); }
      <<<<>>, Body(<<Return(FunctionCall(Ident("bar"), <<>>))>>)>>,
      \* function f() { function g() { return 7; } return g(); }
      <<<<>>, Body(<<Statement(FunctionStatement("g", <<>>, Body(<<Return(Num("7"))>>))),
                     Return(FunctionCall(Ident("g"), <<>>))>>)>> }
Declarations ==
    {<<Statement(FunctionStatement("f", fn[1], fn[2]))>> : fn \in Functions}
        \cup {<<Statement(FunctionStatement(name, <<>>, Body(<<Return(Num("7"))>>)))>> :
                 name \in {"FOO", "x"}}
Scripts ==
    { \* return 1; x = 2;
      <<Return(Num("1")), Statement(Assign("x", Num("2")))>>,
      \* x = 1; return x;
      <<Statement(Assign("x", Num("1"))), Return(Ident("x"))>>,
      \* x = 1; nope = 2; x = 2;
      <<Statement(Assign("x", Num("1"))), Statement(Assign("nope", Num("2"))),
        Statement(Assign("x", Num("2")))>>,
      \* x = 2; x = true; x = 1;
      <<Statement(Assign("x", Num("2"))), Statement(Assign("x", True)),
        Statement(Assign("x", Num("1")))>>,
      \* nope = 1; x = 1; x = 2;
      <<Statement(Assign("nope", Num("1"))), Statement(Assign("x", Num("1"))),
        Statement(Assign("x", Num("2")))>>,
      \* x = 2; x = 1; x = 2;
      <<Statement(Assign("x", Num("2"))), Statement(Assign("x", Num("1"))),
        Statement(Assign("x", Num("2")))>> }

ArgExprs == {Num("9"), Ident("nope"), Assign("x", Num("1"))}
RECURSIVE SeqsUpTo(_, _)
\* the sequences of at most n elements of S
SeqsUpTo(S, n) ==
    IF n = 0 THEN {<<>>}
    ELSE LET shorter == SeqsUpTo(S, n - 1) IN
         shorter \cup {Append(q, e) : q \in shorter, e \in S}
Calls ==
    {FunctionCall(Ident(callee), args) :
        callee \in {"f", "log"}, args \in SeqsUpTo(ArgExprs, MaxArgs)}
        \cup {FunctionCall(Ident("bar"), args) : args \in SeqsUpTo(ArgExprs, 1)}
        \cup {FunctionCall(Ident(callee), <<>>) : callee \in {"x", "nope"}}
        \cup {FunctionCall(Ident(callee), <<Assign("x", Num("1"))>>) :
                 callee \in {"FOO", "nope"}}
Conditions ==
    {True, False, Num("1"), NullLiteral, Ident("nope"),
     Chain("comparison", Num("1"), << <<"==", Num("1")>> >>),
     Chain("comparison", Num("1"), << <<"==", Num("2")>> >>)}
Ternaries ==
    {Ternary(c, Assign("x", Num("1")), Assign("x", Num("2"))) : c \in Conditions}
        \cup {Ternary(c, Num("1"), Num("2")) : c \in {True, False}}
EvalAssignments ==
    {Assignment(Ident("x"), "=", Num("4")), Assignment(Ident("x"), "=", True),
     Assignment(Ident("FOO"), "=", Num("8")),
     Chain("comparison", Num("4"), << <<"==", Assign("x", Num("4"))>> >>),
     Chain("comparison", Num("4"), << <<"==", Assign("x", True)>> >>),
     Chain("comparison", Num("4"), << <<"==", Num("4")>> >>)}
EvalReads == {Ident("x"), Ident("FOO"), Ident("f")}

EvalScripts == Declarations \cup Scripts
EvalExpressions == Calls \cup Ternaries \cup EvalAssignments \cup EvalReads

NextEval ==
    \/ RunScript(EvalScripts)
    \/ RunExpression(EvalExpressions)

SpecEval == InitEval /\ [][NextEval]_vars

(***************************************************************************)
(* SpecOps: an interpreter with a variable and the least Number as a       *)
(* constant; it runs comparisons, sums and products of one operator over   *)
(* literals and identifiers.                                               *)
(***************************************************************************)
OpsBoot ==
    define_constant(define_variable(default, "x", Number(4)).b, "min", Number(I32Min)).b

InitOps ==
    /\ bindings = OpsBoot
    /\ outer = <<>>
    /\ pre = OpsBoot
    /\ last = Operation("new", "", Null, <<>>, Ok(Null, OpsBoot, <<>>))
    /\ overflow_checks \in BOOLEAN

\* 2147483647, the greatest Number
MaxLiteral == NumericLiteral(<<"2", "1", "4", "7", "4", "8", "3", "6", "4", "7">>)
\* 65536, whose square is 2^32
BigLiteral == NumericLiteral(<<"6", "5", "5", "3", "6">>)
\* the rule whose pair holds the operator
RuleOf(operator) ==
    IF operator \in {"==", "==="} THEN "comparison"
    ELSE IF operator \in {"+", "-"} THEN "sum" ELSE "product"
Compared ==
    {Num("1"), Num("3"), True, False, NullLiteral, Ident("nope"),
     StringLiteral(<<"'", "a", "'">>), StringLiteral(<<"'", "b", "'">>),
     StringLiteral(<<"\"", "a", "\"">>)}
Summed ==
    {Num("0"), Num("1"), Num("3"), MaxLiteral, BigLiteral, Ident("min"), True,
     Ident("nope")}
\* a op b
Binary ==
    {Chain("comparison", a, << <<op, b>> >>) :
        op \in {"==", "==="}, a \in Compared, b \in Compared}
    \cup {Chain(RuleOf(op), a, << <<op, b>> >>) :
        op \in {"+", "-", "*"}, a \in Summed, b \in Summed}
OpsExpressions == Binary \cup {Ident("x")}

NextOps == RunExpression(OpsExpressions)

SpecOps == InitOps /\ [][NextOps]_vars

(***************************************************************************)
(* SpecChain: the same interpreter runs chains of two operators of one     *)
(* rule, over operands that succeed, fail, or assign and give Null.        *)
(***************************************************************************)
ChainOperators == {<<"-", "-">>, <<"==", "==">>, <<"===", "===">>}
ChainOperands ==
    {Num("2"), Num("5"), Ident("nope"), Assign("x", Num("1")), Assign("x", Num("2"))}
\* a op1 b op2 c
Chains ==
    {Chain(RuleOf(ops[1]), a, << <<ops[1], b>>, <<ops[2], c>> >>) :
        ops \in ChainOperators,
        a \in ChainOperands, b \in ChainOperands, c \in ChainOperands}
\* 2+2==4==false and 3*10-5 of the tests
Examples ==
    {Chain("comparison", Chain("sum", Num("2"), << <<"+", Num("2")>> >>),
           << <<"==", Num("4")>>, <<"==", False>> >>),
     Chain("sum", Chain("product", Num("3"), << <<"*", NumericLiteral(<<"1", "0">>)>> >>),
           << <<"-", Num("5")>> >>)}
ChainExpressions == Chains \cup Examples \cup {Ident("x")}

NextChain == RunExpression(ChainExpressions)

SpecChain == InitOps /\ [][NextChain]_vars

(***************************************************************************)
(* SpecString: a host that holds the text of a string literal and runs it  *)
(* as an expression, once.                                                 *)
(***************************************************************************)
Characters == {"'", "\"", "\\", "n", "a"}
\* the texts of the tests: 'Shut up!', '\'', "Hello!", '\n\t\r'
TestTexts ==
    {<<"'", "S", "h", "u", "t", " ", "u", "p", "!", "'">>,
     <<"'", "\\", "'", "'">>,
     <<"\"", "H", "e", "l", "l", "o", "!", "\"">>,
     <<"'", "\\", "n", "\\", "t", "\\", "r", "'">>}
Texts == SeqsUpTo(Characters, MaxLen) \cup TestTexts

InitString ==
    /\ bindings = default
    /\ outer = <<>>
    /\ pre = default
    /\ overflow_checks \in BOOLEAN
    /\ \E text \in Texts :
          last = Operation("text", "", Null, StringLiteral(text), Ok(Null, default, <<>>))

\* Jabroni::run_expression on the text the host holds
RunText ==
    /\ last.op = "text"
    /\ Step("run_expression", "", Null, last.code, run_expression(last.code, bindings))

NextString == RunText

SpecString == InitString /\ [][NextString]_vars

(***************************************************************************)
(* Properties.                                                             *)
(***************************************************************************)
IsDefine == last.op \in {"define_constant", "define_variable"}
IsUpdate == last.op = "update_variable"
IsExpression(kind) == last.op = "run_expression" /\ last.code.kind = kind
\* the binding a lookup of ident in maps finds: the one of the topmost frame
\* that holds ident
Bound(maps, ident) == FramesWith(maps, ident) # {}
Visible(maps, ident) == maps[Highest(FramesWith(maps, ident))][ident]

RECURSIVE TagsAsDefined(_)
\* every binding of maps, the fields of its objects included, holds a value
\* of the tag it was constructed with
TagsAsDefined(maps) ==
    \A i \in 1..Len(maps) : \A id \in DOMAIN maps[i] :
        LET binding == maps[i][id] IN
        /\ binding.value.tag = binding.defTag
        /\ binding.value.tag = "Object" => TagsAsDefined(binding.value.maps)

\* C1: whatever update_variable calls and '=' assignments ran, succeeding or
\* failing, every binding, top level or field of an object, holds a value of
\* the tag of the value it was defined with; in particular no such operation
\* changes the tag a top level identifier holds.
C1_TagFixed ==
    /\ TagsAsDefined(bindings)
    /\ (IsUpdate \/ last.op = "run_expression") =>
          \A i \in 1..Len(pre) : \A id \in DOMAIN pre[i] :
              bindings[i][id].value.tag = pre[i][id].value.tag

\* an assignment to a field of an object succeeded and changed the field
C1_Witness ==
    /\ IsExpression("assignment")
    /\ last.code.lhs.kind = "member_access"
    /\ last.err = NoError
    /\ bindings # pre
    /\ Visible(pre, last.code.lhs.object).value.tag = "Object"

RECURSIVE AllBindings(_)
\* the bindings of maps, the fields of its objects included
AllBindings(maps) ==
    UNION {UNION {{maps[i][id]} \cup
                  (IF maps[i][id].value.tag = "Object"
                   THEN AllBindings(maps[i][id].value.maps) ELSE {})
                  : id \in DOMAIN maps[i]} : i \in 1..Len(maps)}

\* C2: set_value on an immutable binding fails with TypeError for every
\* value, of the binding's tag or not, and leaves the binding as it was; so
\* update_variable on a constant and an assignment to a constant fail with
\* TypeError, change no binding, and the constant still reads as before.
C2_ConstantNeverReassigned ==
    /\ \A binding \in AllBindings(bindings) : \A value \in UpdateValues :
          ~binding.mutable =>
              set_value(binding, value) = [err |-> TypeError, binding |-> binding]
    /\ (IsUpdate /\ Bound(pre, last.ident) /\ ~Visible(pre, last.ident).mutable) =>
          /\ last.err = TypeError
          /\ bindings = pre
          /\ get(bindings, last.ident).binding = Visible(pre, last.ident)
    /\ (/\ IsExpression("assignment")
        /\ last.code.rhs.kind # "ident"
        /\ Bound(pre, last.code.lhs.id)
        /\ ~Visible(pre, last.code.lhs.id).mutable) =>
          /\ last.err = TypeError
          /\ bindings = pre
          /\ get(bindings, last.code.lhs.id).binding = Visible(pre, last.code.lhs.id)

\* an assignment of a number to a constant that holds a number failed
C2_Witness ==
    /\ IsExpression("assignment")
    /\ last.code.rhs.kind = "numeric_literal"
    /\ Bound(pre, last.code.lhs.id)
    /\ ~Visible(pre, last.code.lhs.id).mutable
    /\ Visible(pre, last.code.lhs.id).value.tag = "Number"
    /\ last.err = TypeError

C4_UpdateVariable ==
    IsUpdate =>
        IF ~Bound(pre, last.ident)
        THEN last.err = ReferenceError /\ bindings = pre
        ELSE IF \/ ~Visible(pre, last.ident).mutable
                \/ Visible(pre, last.ident).value.tag # last.value.tag
        THEN last.err = TypeError /\ bindings = pre
        ELSE /\ last.err = NoError
             /\ run_expression(Ident(last.ident), bindings).val = last.value
             /\ run_expression(Ident(last.ident), bindings).err = NoError

\* an update succeeded on an identifier that two frames hold, and changed
\* what the identifier reads as
C4_Witness ==
    /\ IsUpdate
    /\ Cardinality(FramesWith(pre, last.ident)) = 2
    /\ last.err = NoError
    /\ Visible(pre, last.ident).value # last.value

\* the last operation evaluated a call of an identifier that the bindings
\* before it resolve to a subroutine
IsCall ==
    /\ IsExpression("function_call")
    /\ last.code.callee.kind = "ident"
    /\ Bound(pre, last.code.callee.id)
    /\ Visible(pre, last.code.callee.id).value.tag = "Subroutine"
Callee == Visible(pre, last.code.callee.id).value.sub
\* the evaluation of the arguments of the call
Passed == arguments(last.code.args, 1, <<>>, pre, <<>>)
\* the places of a log where a callback started, where a return statement ran
Callbacks(log) == {i \in DOMAIN log : log[i].ev = "callback"}
Returns(log) ==
    {i \in DOMAIN log : log[i].ev = "statement" /\ log[i].pair.kind = "return_statement"}
\* the identifier an event resolves: the one an identifier expression reads,
\* the one a call expression names as its callee
Refers(event) ==
    IF event.ev = "expression" /\ event.pair.kind = "ident" THEN {event.pair.id}
    ELSE IF event.ev = "expression" /\ event.pair.kind = "function_call"
            /\ event.pair.callee.kind = "ident"
    THEN {event.pair.callee.id}
    ELSE {}
\* the functions the statements logged in from..to declare
DeclaredIn(log, from, to) ==
    {log[j].pair.name : j \in {k \in from..to :
        log[k].ev = "statement" /\ log[k].pair.kind = "function_statement"}}
Range(q) == {q[i] : i \in DOMAIN q}
\* the last operation called an interpreted function and its body ran
IsInterpretedRun ==
    /\ IsCall
    /\ ~Callee.callback.native
    /\ Callbacks(last.log) # {}
\* a function of one parameter whose body is { return <that parameter>; }
\* called with one argument gives the value of the argument
ParameterIsArgument ==
    (/\ Len(Callee.callback.params) = 1
     /\ Callee.callback.body = Body(<<Return(Ident(Callee.callback.params[1]))>>)
     /\ Len(last.code.args) = 1
     /\ Passed.err = NoError) =>
        last.err = NoError /\ last.val = Passed.args[1]

\* C5 as stated: in the body of an interpreted function only the declared
\* parameters resolve, to the argument values; a reference to any other
\* identifier fails with ReferenceError.
C5_OnlyParameters ==
    IsInterpretedRun =>
        /\ ParameterIsArgument
        /\ \A i \in (Lowest(Callbacks(last.log)) + 1)..Len(last.log) :
              \/ Refers(last.log[i]) \subseteq Range(Callee.callback.params)
              \/ i = Len(last.log) /\ last.err = ReferenceError

\* C5, amended: in the body of an interpreted function the identifiers that
\* resolve are the declared parameters, bound to the argument values, and the
\* functions the body itself has declared by then; a reference to any other
\* identifier, the variables, constants and functions of the caller among
\* them, fails with ReferenceError.
C5_OnlyParametersAndOwnFunctions ==
    IsInterpretedRun =>
        LET start == Lowest(Callbacks(last.log)) IN
        /\ ParameterIsArgument
        /\ \A i \in (start + 1)..Len(last.log) :
              \/ Refers(last.log[i]) \subseteq
                     Range(Callee.callback.params) \cup DeclaredIn(last.log, start, i - 1)
              \/ i = Len(last.log) /\ last.err = ReferenceError

\* a function body read x, which the caller binds, and the call failed
C5_Witness ==
    /\ IsInterpretedRun
    /\ Bound(pre, "x")
    /\ Refers(last.log[Len(last.log)]) = {"x"}
    /\ last.err = ReferenceError

C7_ReturnEndsExecution ==
    (/\ last.op \in {"run_script", "run_expression"}
     /\ Cardinality(Callbacks(last.log)) <= 1
     /\ Returns(last.log) # {}) =>
        LET first == Lowest(Returns(last.log)) IN
        /\ \A j \in (first + 1)..Len(last.log) : last.log[j].ev # "statement"
        /\ (last.err = NoError /\ last.log[first].pair.inner.kind = "numeric_literal") =>
               last.val = from_numeric_literal(last.log[first].pair.inner.literal).value

\* the last operation ran a script that is one function declaration
IsDeclaration ==
    /\ last.op = "run_script"
    /\ Len(last.code) = 1
    /\ last.code[1].inner.kind = "function_statement"

\* C8 as stated: a function declaration of a name the current scope binds
\* fails with DoubleDefinitionError and leaves the binding as it was; a
\* declaration of an unbound name binds it as a constant Subroutine.
C8_RedeclarationFails ==
    IsDeclaration =>
        LET name == last.code[1].inner.name
            top == Len(pre)
        IN IF name \in DOMAIN pre[top]
           THEN last.err = DoubleDefinitionError /\ bindings = pre
           ELSE /\ last.err = NoError
                /\ name \in DOMAIN bindings[top]
                /\ ~bindings[top][name].mutable
                /\ bindings[top][name].value.tag = "Subroutine"

\* the last operation logged the evaluation of the expression pair e
Ran(e) == \E i \in DOMAIN last.log : last.log[i] = ExprEvent(e)

\* C9: a ternary whose condition is a Boolean evaluates the selected branch
\* and not the other one, so the bindings and the result are those of the
\* condition followed by the selected branch alone; a condition that is not
\* a Boolean fails with TypeError and neither branch is evaluated.
C9_TernaryShortCircuit ==
    (IsExpression("ternary") /\ last.code.first # last.code.second) =>
        LET condition == interpret_expression(last.code.condition, pre) IN
        IF condition.err # NoError
        THEN /\ last.err = condition.err
             /\ ~Ran(last.code.first) /\ ~Ran(last.code.second)
        ELSE IF condition.val.tag # "Boolean"
        THEN /\ last.err = TypeError
             /\ ~Ran(last.code.first) /\ ~Ran(last.code.second)
             /\ bindings = condition.b
        ELSE LET chosen == IF condition.val.b THEN last.code.first ELSE last.code.second
                 other == IF condition.val.b THEN last.code.second ELSE last.code.first
                 r == interpret_expression(chosen, condition.b)
             IN /\ Ran(chosen) /\ ~Ran(other)
                /\ bindings = r.b
                /\ last.err = r.err /\ last.val = r.val

\* a ternary with a false condition assigned in its second branch
C9_Witness ==
    /\ IsExpression("ternary")
    /\ last.code.condition = Chain("comparison", Num("1"), << <<"==", Num("2")>> >>)
    /\ last.code.second = Assign("x", Num("2"))
    /\ last.err = NoError
    /\ Visible(pre, "x").value # Number(2)
    /\ Visible(bindings, "x").value = Number(2)

\* C10: a successful '=' assignment evaluates to Null whatever it assigned;
\* so a Number compared by == with an assignment that succeeds fails with
\* TypeError.
C10_AssignmentIsNull ==
    /\ (IsExpression("assignment") /\ last.err = NoError) => last.val = Null
    /\ (/\ IsExpression("comparison")
        /\ last.code.first.kind = "numeric_literal"
        /\ last.code.rest[1][1] = "=="
        /\ last.code.rest[1][2].kind = "expression"
        /\ last.code.rest[1][2].inner.kind = "assignment"
        /\ interpret_expression(last.code.rest[1][2], pre).err = NoError) =>
           last.err = TypeError

\* 4 == (x = 4) failed after it assigned
C10_Witness ==
    /\ IsExpression("comparison")
    /\ last.code.rest[1][2].kind = "expression"
    /\ Visible(pre, "x").value = Number(1)
    /\ Visible(bindings, "x").value = Number(4)
    /\ last.err = TypeError

\* the last operation evaluated a chain of n operators
IsChain(n) ==
    /\ last.op = "run_expression"
    /\ last.code.kind \in {"comparison", "sum", "product"}
    /\ Len(last.code.rest) = n
\* the evaluations of the operands of that chain, each on the bindings the
\* one before it left
Operand0 == interpret_expression(last.code.first, pre)
Operand1 == interpret_expression(last.code.rest[1][2], Operand0.b)
\* a op b for the operands a and b of a chain of one operator, both evaluated
IsBinary(operator) ==
    /\ IsChain(1)
    /\ last.code.rest[1][1] = operator
    /\ Operand0.err = NoError
    /\ Operand1.err = NoError

\* C11: a == b on values of different tags fails with TypeError; on two
\* Numbers, two Booleans or two Strings it gives the Boolean that tells
\* whether they are equal by value.
C11_LooseEquality ==
    IsBinary("==") =>
        LET a == Operand0.val
            b == Operand1.val
        IN IF a.tag # b.tag
           THEN last.err = TypeError
           ELSE a.tag \in {"Number", "Boolean", "String"} =>
                    last.err = NoError /\ last.val = Boolean(a = b)

\* 4 == false failed with TypeError
C11_Witness ==
    /\ IsBinary("==")
    /\ Operand0.val.tag = "Number"
    /\ Operand1.val = Boolean(FALSE)
    /\ last.err = TypeError

\* C12 as stated: a === b on values of different tags fails with TypeError.
C12_StrictEqualityFails ==
    (IsBinary("===") /\ Operand0.val.tag # Operand1.val.tag) =>
        last.err = TypeError

\* C12, amended: a === b on values of different tags succeeds and gives
\* Boolean(false).
C12_StrictEqualityAcrossTypes ==
    (IsBinary("===") /\ Operand0.val.tag # Operand1.val.tag) =>
        last.err = NoError /\ last.val = Boolean(FALSE)

\* 1 === true gave false
C12_Witness ==
    /\ IsBinary("===")
    /\ Operand0.val = Number(1)
    /\ Operand1.val = Boolean(TRUE)
    /\ last.err = NoError
    /\ last.val = Boolean(FALSE)

\* C13 as stated: a + b, a - b and a * b on Numbers a and b give the Number
\* that holds the mathematical sum, difference and product.
C13_Arithmetic ==
    \A operator \in {"+", "-", "*"} :
        (/\ IsBinary(operator)
         /\ Operand0.val.tag = "Number"
         /\ Operand1.val.tag = "Number") =>
            LET a == Operand0.val.n
                b == Operand1.val.n
            IN /\ last.err = NoError
               /\ last.val.tag = "Number"
               /\ IF operator = "+" THEN ~add_overflows(a, b) /\ last.val.n = a + b
                  ELSE IF operator = "-" THEN ~sub_overflows(a, b) /\ last.val.n = a - b
                  ELSE ~mul_overflows(a, b) /\ last.val.n = a * b

Operand2 == interpret_expression(last.code.rest[2][2], Operand1.b)
\* the first operator applied to the first two operands, the second operator
\* applied to that and the third operand
Applied1 == apply(last.code.rest[1][1], Operand0.val, Operand1.val)
Applied2 == apply(last.code.rest[2][1], Applied1.value, Operand2.val)
\* the last operation failed with err after it ran what log tells, and left
\* the bindings b
FailedWith(err, b, log) ==
    /\ last.err = err
    /\ bindings = b
    /\ last.log = <<ExprEvent(last.code)>> \o log
\* the number a numeric literal of one digit denotes
DigitOf(pair) == digit(pair.literal[1])

\* C14: x0 op1 x1 op2 x2 evaluates as (x0 op1 x1) op2 x2: the operands are
\* evaluated from left to right, each operator is applied as soon as its
\* right operand is known, and the first operand or operator that fails
\* ends the evaluation with its error, nothing after it being evaluated;
\* 2+2==4==false gives Boolean(false) and 3*10-5 gives 25.
C14_LeftFold ==
    /\ IsChain(2) =>
          IF Operand0.err # NoError
          THEN FailedWith(Operand0.err, Operand0.b, Operand0.log)
          ELSE IF Operand1.err # NoError
          THEN FailedWith(Operand1.err, Operand1.b, Operand0.log \o Operand1.log)
          ELSE IF Applied1.err # NoError
          THEN FailedWith(Applied1.err, Operand1.b, Operand0.log \o Operand1.log)
          ELSE IF Operand2.err # NoError
          THEN FailedWith(Operand2.err, Operand2.b,
                          Operand0.log \o Operand1.log \o Operand2.log)
          ELSE IF Applied2.err # NoError
          THEN FailedWith(Applied2.err, Operand2.b,
                          Operand0.log \o Operand1.log \o Operand2.log)
          ELSE /\ last.val = Applied2.value
               /\ FailedWith(NoError, Operand2.b,
                             Operand0.log \o Operand1.log \o Operand2.log)
    /\ (/\ IsChain(2)
        /\ last.code.rest[1][1] = "-" /\ last.code.rest[2][1] = "-"
        /\ last.code.first.kind = "numeric_literal"
        /\ last.code.rest[1][2].kind = "numeric_literal"
        /\ last.code.rest[2][2].kind = "numeric_literal") =>
           /\ last.err = NoError
           /\ last.val = Number((DigitOf(last.code.first) - DigitOf(last.code.rest[1][2]))
                                    - DigitOf(last.code.rest[2][2]))
    /\ (last.op = "run_expression" /\ last.code \in Examples) =>
           /\ last.err = NoError
           /\ last.code.kind = "comparison" => last.val = Boolean(FALSE)
           /\ last.code.kind = "sum" => last.val = Number(25)

\* 5-2-2 gave 1
C14_Witness ==
    /\ IsChain(2)
    /\ last.code.first = Num("5")
    /\ last.code.rest = << <<"-", Num("2")>>, <<"-", Num("2")>> >>
    /\ last.val = Number(1)

\* the last operation ran a script of three statements
IsScript3 == last.op = "run_script" /\ Len(last.code) = 3
\* the statements of that script, each run on the bindings the one before
\* it left
Statement1 == interpret_statement(last.code[1], pre)
Statement2 == interpret_statement(last.code[2], Statement1.b)
Statement3 == interpret_statement(last.code[3], Statement2.b)
\* the script ended with err after it ran what log tells, and left the
\* bindings b
ScriptEnded(err, b, log) ==
    /\ last.err = err
    /\ bindings = b
    /\ last.log = log

\* C15: run_script runs the statements in the order of the text and stops at
\* the first that fails: its error is the result, no later statement runs,
\* and what the statements before it did to the bindings stays.
C15_StopsAtFirstFailure ==
    /\ IsScript3 =>
          IF Statement1.err # NoError
          THEN ScriptEnded(Statement1.err, Statement1.b, Statement1.log)
          ELSE IF Statement2.err # NoError
          THEN ScriptEnded(Statement2.err, Statement2.b,
                           Statement1.log \o Statement2.log)
          ELSE ScriptEnded(Statement3.err, Statement3.b,
                           Statement1.log \o Statement2.log \o Statement3.log)
    /\ (/\ IsScript3
        /\ last.code[1] = Statement(Assign("x", Num("1")))
        /\ last.code[2] = Statement(Assign("nope", Num("2")))
        /\ Bound(pre, "x") /\ Visible(pre, "x").mutable
        /\ Visible(pre, "x").value.tag = "Number") =>
           /\ last.err = ReferenceError
           /\ Visible(bindings, "x").value = Number(1)

\* x = 2; x = true; x = 1; failed at its second statement and left x at 2
C15_Witness ==
    /\ IsScript3
    /\ last.code[2] = Statement(Assign("x", True))
    /\ Visible(pre, "x").value = Number(1)
    /\ last.err = TypeError
    /\ Visible(bindings, "x").value = Number(2)

\* the member access pair the last operation read or assigned through, when
\* it names a field of the binding of an identifier directly
Accessed ==
    IF last.code.kind = "assignment" THEN last.code.lhs ELSE last.code
IsMemberAccess ==
    /\ last.op = "run_expression"
    /\ last.code.kind \in {"assignment", "member_access"}
    /\ Accessed.kind = "member_access"
    /\ Accessed.member.kind \in {"ident", "kernel"}
    /\ Bound(pre, Accessed.object)
Field == IF Accessed.member.kind = "kernel" THEN Accessed.member.inner.id
         ELSE Accessed.member.id
Owner(maps) == Visible(maps, Accessed.object)
\* the fields of the object the owner holds in maps
Fields(maps) == Owner(maps).value.maps[1]

\* C16: an assignment to a constant field of an object fails with TypeError
\* and changes nothing; an assignment of a value of the same tag to a
\* variable field succeeds, the field then reads as the new value, and no
\* other field and no other binding has changed; a member access on a
\* binding that holds no Object fails with TypeError.
C16_ObjectFields ==
    IsMemberAccess =>
        IF Owner(pre).value.tag # "Object"
        THEN last.err = TypeError /\ bindings = pre
        ELSE (last.code.kind = "assignment" /\ Field \in DOMAIN Fields(pre)) =>
                LET field == Fields(pre)[Field]
                    value == interpret_expression(last.code.rhs, pre).val
                IN IF ~field.mutable
                   THEN /\ last.err = TypeError
                        /\ bindings = pre
                        /\ run_expression(Accessed, bindings).val = field.value
                   ELSE value.tag = field.value.tag =>
                        /\ last.err = NoError
                        /\ run_expression(Accessed, bindings).err = NoError
                        /\ run_expression(Accessed, bindings).val = value
                        /\ DOMAIN Fields(bindings) = DOMAIN Fields(pre)
                        /\ \A f \in DOMAIN Fields(pre) \ {Field} :
                               Fields(bindings)[f] = Fields(pre)[f]
                        /\ Fields(bindings)[Field].mutable
                        /\ Owner(bindings).mutable = Owner(pre).mutable
                        /\ DOMAIN bindings[1] = DOMAIN pre[1]
                        /\ \A id \in DOMAIN pre[1] \ {Accessed.object} :
                               bindings[1][id] = pre[1][id]

\* foo.bar = 0 changed the field bar of foo from 8 to 0 beside a field baz
C16_Witness ==
    /\ IsMemberAccess
    /\ last.code.kind = "assignment"
    /\ Owner(pre).value.tag = "Object"
    /\ Field = "bar"
    /\ "baz" \in DOMAIN Fields(pre)
    /\ Fields(pre)["bar"].value = Number(8)
    /\ last.err = NoError
    /\ Fields(bindings)["bar"].value = Number(0)

\* a member access on a Number failed with TypeError
C16_WitnessNotObject ==
    /\ IsMemberAccess
    /\ Owner(pre).value.tag = "Number"
    /\ last.err = TypeError

\* the number of backslashes that stand in a row right before place i of s
Backslashes(s, i) ==
    CHOOSE k \in 0..(i - 1) :
        /\ \A j \in (i - k)..(i - 1) : s[j] = "\\"
        /\ k = i - 1 \/ s[i - k - 1] # "\\"
\* the character at place i is escaped: an odd number of backslashes precede
\* it, the last of which escapes it
Escaped(s, i) == Backslashes(s, i) % 2 = 1
\* the character at place i is a backslash that escapes the next character
Escaping(s, i) == s[i] = "\\" /\ ~Escaped(s, i)
\* the places after the first where the opening quote stands unescaped
Terminators(s) == {i \in 2..Len(s) : s[i] = s[1] /\ ~Escaped(s, i)}
\* s is a quoted text: it opens with a quote, the first unescaped occurrence
\* of that quote is its last character, and every escaped character between
\* them is one of n, t, r, backslash and the two quotes
Quoted(s) ==
    /\ Len(s) >= 2
    /\ s[1] \in {"'", "\""}
    /\ Terminators(s) # {}
    /\ Lowest(Terminators(s)) = Len(s)
    /\ \A i \in 2..(Len(s) - 1) :
          Escaped(s, i) => s[i] \in {"n", "t", "r", "\\", "'", "\""}
\* the character the one at place i of s denotes
Denoted(s, i) ==
    IF ~Escaped(s, i) THEN s[i]
    ELSE IF s[i] = "n" THEN "\n"
    ELSE IF s[i] = "t" THEN "\t"
    ELSE IF s[i] = "r" THEN "\r"
    ELSE s[i]
\* the text between the quotes of s, each escape replaced by what it denotes
Between(s) ==
    LET places == SelectSeq([k \in 1..(Len(s) - 2) |-> k + 1],
                            LAMBDA i : ~Escaping(s, i))
    IN [k \in 1..Len(places) |-> Denoted(s, places[k])]
\* the last operation evaluated a string literal
IsStringLiteral ==
    last.op = "run_expression" /\ last.code.kind = "string_literal"

\* C17: unquote succeeds exactly on the quoted texts, and gives the text
\* between the quotes with each escape replaced by the character it
\* denotes; on every other text it fails with ParseError.
C17_Unquote ==
    IsStringLiteral =>
        LET s == last.code.literal IN
        IF Quoted(s)
        THEN last.err = NoError /\ last.val = String(Between(s))
        ELSE last.err = ParseError

\* '\'' gave the text of the one character '
C17_Witness ==
    /\ IsStringLiteral
    /\ last.code.literal = <<"'", "\\", "'", "'">>
    /\ last.err = NoError
    /\ last.val = String(<<"'">>)

\* f is the most recently pushed frame of maps that holds ident
Innermost(maps, ident, f) ==
    /\ f \in 1..Len(maps)
    /\ ident \in DOMAIN maps[f]
    /\ \A g \in (f + 1)..Len(maps) : ident \notin DOMAIN maps[g]
\* some frame of maps holds ident
Held(maps, ident) == \E f \in 1..Len(maps) : ident \in DOMAIN maps[f]

\* C18: a lookup gives the binding of the most recently pushed frame that
\* holds the identifier, so an inner definition shadows an outer one, and
\* fails with ReferenceError exactly when no frame holds it: a read gives
\* the value of that binding, and an update writes that binding and no
\* other.
C18_Shadowing ==
    /\ IsExpression("ident") =>
          /\ (last.err = ReferenceError) <=> ~Held(pre, last.code.id)
          /\ \A f \in 1..Len(pre) :
                Innermost(pre, last.code.id, f) =>
                    last.err = NoError /\ last.val = pre[f][last.code.id].value
    /\ IsUpdate =>
          /\ (last.err = ReferenceError) <=> ~Held(pre, last.ident)
          /\ \A f \in 1..Len(pre) :
                (Innermost(pre, last.ident, f) /\ last.err = NoError) =>
                    /\ bindings[f][last.ident].value = last.value
                    /\ \A g \in 1..Len(pre) : g # f => bindings[g] = pre[g]

\* a read of an identifier that two frames hold with different values gave
\* the value of the inner one
C18_Witness ==
    /\ IsExpression("ident")
    /\ Len(pre) = 2
    /\ last.code.id \in DOMAIN pre[1]
    /\ last.code.id \in DOMAIN pre[2]
    /\ pre[1][last.code.id].value # pre[2][last.code.id].value
    /\ last.val = pre[2][last.code.id].value

\* the nested context has just been made of a copy of every frame of the
\* original and one empty top frame, and the original is kept as it was
JustNested ==
    last.op = "enter" =>
        /\ Len(bindings) = Len(pre) + 1
        /\ \A i \in 1..Len(pre) : bindings[i] = pre[i]
        /\ bindings[Len(bindings)] = EmptyFrame
        /\ outer[Len(outer)] = pre
\* every binding map has a frame, and the original of the k-th nested
\* context still has its k frames
FrameCounts ==
    /\ Len(bindings) >= 1
    /\ Len(bindings) = Len(outer) + 1
    /\ \A k \in 1..Len(outer) : Len(outer[k]) = k
\* a definition, an update or an expression run on the nested map changes
\* no original
OriginalsKept ==
    last'.op \notin {"enter", "leave"} => outer' = outer

\* C19: clone_with_new_scope gives a copy of every frame of the original
\* and one empty top frame; afterwards nothing done to the nested map, a
\* definition or a set_value, changes a binding of the original, whose count
\* of frames, at least one, stays.
C19_NestedContext ==
    [](JustNested /\ FrameCounts) /\ [][OriginalsKept]_vars

\* the nested map has changed a binding it copied from the original, and
\* the original still holds the old value
C19_Witness ==
    /\ Len(outer) = 1
    /\ "x" \in DOMAIN outer[1][1]
    /\ IsUpdate
    /\ last.ident = "x"
    /\ last.err = NoError
    /\ bindings[1]["x"].value # outer[1][1]["x"].value

\* the arguments of the call of the last operation, each evaluated on the
\* bindings the one before it left
Argument1 == interpret_expression(last.code.args[1], pre)
Argument2 == interpret_expression(last.code.args[2], Argument1.b)
Argument3 == interpret_expression(last.code.args[3], Argument2.b)
\* the call ended with err before the callback, after it ran what log tells
CallEnded(err, b, log) ==
    /\ last.err = err
    /\ bindings = b
    /\ last.log = <<ExprEvent(last.code)>> \o log
\* the callback was invoked, right after the evaluations log tells
CallbackAfter(b, log) ==
    LET evaluated == <<ExprEvent(last.code)>> \o log IN
    /\ bindings = b
    /\ Len(last.log) >= Len(evaluated)
    /\ SubSeq(last.log, 1, Len(evaluated)) = evaluated
    /\ Callee.arity = NoArity \/ Callee.arity[1] = Len(last.code.args) =>
          /\ Len(last.log) > Len(evaluated)
          /\ last.log[Len(evaluated) + 1] = CallbackEvent(Callee.callback)

\* C20: a call first resolves the callee and checks that it holds a
\* Subroutine, failing with ReferenceError or TypeError before any argument
\* is evaluated; then evaluates the arguments from left to right, the first
\* that fails ending the call with no later argument evaluated and the
\* callback not invoked; and invokes the callback after all of them.
C20_CallOrder ==
    (/\ IsExpression("function_call")
     /\ last.code.callee.kind = "ident"
     /\ Len(last.code.args) <= 3) =>
        LET n == Len(last.code.args) IN
        IF ~Held(pre, last.code.callee.id)
        THEN CallEnded(ReferenceError, pre, <<>>)
        ELSE IF Visible(pre, last.code.callee.id).value.tag # "Subroutine"
        THEN CallEnded(TypeError, pre, <<>>)
        ELSE IF n >= 1 /\ Argument1.err # NoError
        THEN CallEnded(Argument1.err, Argument1.b, Argument1.log)
        ELSE IF n >= 2 /\ Argument2.err # NoError
        THEN CallEnded(Argument2.err, Argument2.b, Argument1.log \o Argument2.log)
        ELSE IF n >= 3 /\ Argument3.err # NoError
        THEN CallEnded(Argument3.err, Argument3.b,
                       Argument1.log \o Argument2.log \o Argument3.log)
        ELSE IF n = 0 THEN CallbackAfter(pre, <<>>)
        ELSE IF n = 1 THEN CallbackAfter(Argument1.b, Argument1.log)
        ELSE IF n = 2 THEN CallbackAfter(Argument2.b, Argument1.log \o Argument2.log)
        ELSE CallbackAfter(Argument3.b,
                           Argument1.log \o Argument2.log \o Argument3.log)

\* FOO(x = 1) failed with TypeError and x was not assigned
C20_Witness ==
    /\ IsExpression("function_call")
    /\ last.code.callee = Ident("FOO")
    /\ last.code.args = <<Assign("x", Num("1"))>>
    /\ Visible(pre, "FOO").value.tag = "Number"
    /\ Visible(pre, "x").value = Number(4)
    /\ last.err = TypeError
    /\ Visible(bindings, "x").value = Number(4)

\* the last operation is one of the calls of the host: define_constant,
\* define_variable, update_variable, run_expression or run_script
IsHostCall ==
    last.op \in {"define_constant", "define_variable", "update_variable",
                 "run_expression", "run_script"}

\* C21 as stated: over a call of the host a binding's value changes only by
\* a successful set_value on it, so the binding was mutable and still holds
\* a value of the same tag; and a binding created as a constant is still a
\* constant of exactly the value it was created with, the fields of an
\* Object value included.
C21_ConstantsKeepTheirValue ==
    IsHostCall =>
        /\ Len(bindings) = Len(pre)
        /\ \A i \in 1..Len(pre) : \A id \in DOMAIN pre[i] :
              /\ id \in DOMAIN bindings[i]
              /\ bindings[i][id].value # pre[i][id].value =>
                    /\ pre[i][id].mutable
                    /\ bindings[i][id].mutable
                    /\ bindings[i][id].value.tag = pre[i][id].value.tag
              /\ ~pre[i][id].mutable => bindings[i][id] = pre[i][id]

====
